---- MODULE Spec2Model ----
(***************************************************************************)
(* Batch allocation of the F213 inventory dashboard (src/app.py).          *)
(*                                                                         *)
(* The model follows the "Process Sales Order" button of main(): the stock *)
(* frame df built by process_data, the filter on Critical batches, the     *)
(* sort by ['Material', 'Umur (Bulan)'], and the loop of                   *)
(* process_sales_order_simple, one step per Sales Order line.  The older   *)
(* module-level process_sales_order is modelled next to it.                *)
(*                                                                         *)
(* Quantities are integers (pieces).  'Umur (Bulan)' is kept in tenths of  *)
(* a month, so that round(days / 30, 1) is an integer.  A comma-joined     *)
(* 'Assigned Batch' string is kept as the sequence of its tokens.          *)
(***************************************************************************)
EXTENDS Integers, Sequences, FiniteSets, TLC

VARIABLES
    raw_df,             \* stock sheet returned by load_data (cached)
    df,                 \* stock frame returned by process_data
    so_df,              \* uploaded Sales Order lines
    allocation_method,  \* selectbox value used by the last click
    include_critical,   \* checkbox value used by the last click
    stock_tracker,      \* process_sales_order_simple: copy of the stock frame
    stock_df,           \* process_sales_order: its sorted copy of the stock frame
    idx,                \* number of Sales Order lines already iterated
    results,            \* the list `results` of the running function
    pc,                 \* "idle" | "simple" | "legacy" | "done" | "legacy_done"
    runs,               \* number of times the button has been pressed
    days,               \* argument of a get_status call
    status              \* value returned by that call

vars == <<raw_df, df, so_df, allocation_method, include_critical,
          stock_tracker, stock_df, idx, results, pc, runs, days, status>>

----------------------------------------------------------------------------
(* Bounds of the model *)

MaxBatches == 2
MaxLines == 2
MaxRuns == 2
MaxDays == 600
MaxExpired == 10

(* Input values *)

FIFO == "FIFO (First Expired First Out)"
LIFO == "LIFO (Last In First Out)"
Methods == {FIFO, LIFO}

\* Material codes in their string order; "M9" is never in stock.
MaterialOrder == <<"M1", "M2", "M9">>
UnrestrictedValues == {0, 10}
ExpiryValues == {50, 99, 100, 400}
OrderQuantities == {-1, 0, 6, 15}
BatchNames == <<"B1", "B2", "B3", "B4">>

\* A cell of the stock sheet: a number, or something pd.to_numeric cannot
\* parse (text, or nothing at all).
Num(n) == [numeric |-> TRUE, value |-> n]
Text == [numeric |-> FALSE, value |-> 0]   \* its value is never read

SheetRow(m, q, e) == [Material |-> m, Unrestricted |-> q, Expiry |-> e]

\* Rows of the stock sheet: every quantity and expiry for "M1", and one
\* lot of a second material.
RawRows ==
    {SheetRow("M1", Num(q), Num(e)) : q \in UnrestrictedValues, e \in ExpiryValues}
    \cup {SheetRow("M2", Num(10), Num(50))}

\* Rows of the uploaded Sales Order.
OrderRows ==
    [Material : {"M1"}, OrderQuantity : OrderQuantities]
    \cup [Material : {"M9"}, OrderQuantity : {-1, 6}]

SeqsUpTo(S, n) == UNION {[1..k -> S] : k \in 0..n}

----------------------------------------------------------------------------
(* process_data *)

get_status_inclusive(d) ==
    IF d <= 360 THEN "Critical"
    ELSE IF d <= 540 THEN "Warning"
    ELSE "Safe"

get_status(d) ==
    IF d < 360 THEN "Critical"
    ELSE IF d < 540 THEN "Warning"
    ELSE "Safe"

\* (days / 30).round(1), in tenths of a month: days / 3 rounded to the
\* nearest integer (a third is never half-way, so no tie rule is involved).
UmurBulan(d) == (2 * d + 3) \div 6

to_numeric_fill_one(c) == IF c.numeric THEN c.value ELSE 1

\* pd.to_numeric(column, errors='coerce').fillna(0), lines 198 and 215:
\* a cell that is not a number becomes NaN and then 0.
to_numeric_fillna(c) == IF c.numeric THEN c.value ELSE 0

\* Lines 196-237 and 270-277: both columns made numeric, then Status and
\* 'Umur (Bulan)' derived from the numeric expiry.  No row is dropped.
process_data(raw) ==
    [i \in 1..Len(raw) |->
        LET expiry == to_numeric_fillna(raw[i].Expiry)
        IN  [Material     |-> raw[i].Material,
             Batch        |-> BatchNames[i],
             Unrestricted |-> to_numeric_fillna(raw[i].Unrestricted),
             Expiry       |-> expiry,
             Status       |-> get_status(expiry),
             Umur         |-> UmurBulan(expiry)]]

----------------------------------------------------------------------------
(* Frame helpers *)

MaterialRank(m) == CHOOSE i \in 1..Len(MaterialOrder) : MaterialOrder[i] = m

Max(a, b) == IF a > b THEN a ELSE b

\* The smaller of the two, but a batch is never emptied: one piece stays.
MinKeepOne(a, b) == IF a <= b THEN a - 1 ELSE b

Min(a, b) == IF a < b THEN a ELSE b

RowBeforeOrTied(a, b, asc) ==
    \/ MaterialRank(a.Material) < MaterialRank(b.Material)
    \/ /\ a.Material = b.Material
       /\ IF asc THEN a.Umur <= b.Umur ELSE a.Umur >= b.Umur

\* Row order of sort_values(['Material', 'Umur (Bulan)'], ascending=[True, asc]).
RowBefore(a, b, asc) ==
    \/ MaterialRank(a.Material) < MaterialRank(b.Material)
    \/ /\ a.Material = b.Material
       /\ IF asc THEN a.Umur < b.Umur ELSE a.Umur > b.Umur

RECURSIVE InsertRow(_, _, _)
InsertRow(x, s, asc) ==
    IF s = << >> THEN <<x>>
    ELSE IF RowBefore(x, Head(s), asc) THEN <<x>> \o s
    ELSE <<Head(s)>> \o InsertRow(x, Tail(s), asc)

sort_values_discarded(s, asc) == s

\* DataFrame.sort_values on several columns is a stable lexsort: rows with
\* equal keys keep their input order, in both directions.
RECURSIVE sort_values(_, _)
sort_values(s, asc) ==
    IF s = << >> THEN << >>
    ELSE InsertRow(s[Len(s)], sort_values(SubSeq(s, 1, Len(s) - 1), asc), asc)

OnlyCritical(r) == r.Status = "Critical"

\* stock_for_allocation['Status'] != 'Critical', line 839
NotCritical(r) == r.Status # "Critical"

IsFIFO(m) == m = FIFO

stock_for_allocation_unfiltered(frame, inc, m) ==
    sort_values(frame, IsFIFO(m))

\* main(), lines 834-849: the frame handed to process_sales_order_simple.
stock_for_allocation(frame, inc, m) ==
    sort_values(IF inc THEN frame ELSE SelectSeq(frame, NotCritical), IsFIFO(m))

CountRows(s) == Len(s)

\* material_stock['Unrestricted'].sum()
RECURSIVE SumUnrestricted(_)
SumUnrestricted(s) ==
    IF s = << >> THEN 0 ELSE Head(s).Unrestricted + SumUnrestricted(Tail(s))

material_stock_any(frame, material) == frame

\* The material code trimmed and upper-cased.
Canonical(m) == IF m \in {"m1", " M1 "} THEN "M1" ELSE m

material_stock_canonical(frame, material) ==
    LET Same(r) == Canonical(r.Material) = Canonical(material)
    IN  SelectSeq(frame, Same)

\* stock_tracker[stock_tracker['Material'].astype(str) == material]
material_stock(frame, material) ==
    LET Same(r) == r.Material = material IN SelectSeq(frame, Same)

----------------------------------------------------------------------------
(* The batch loop shared by both functions (lines 376-388 and 944-955) *)

RECURSIVE Traverse(_, _)
Traverse(rows, remaining_qty) ==
    IF rows = << >> \/ remaining_qty <= 0
    THEN [batch_assignments |-> << >>, remaining_qty |-> remaining_qty]
    ELSE LET stock_row == Head(rows)
             batch_qty == Min(stock_row.Unrestricted, remaining_qty)
         IN  IF batch_qty > 0
             THEN LET t == Traverse(Tail(rows), remaining_qty - batch_qty)
                  IN  [batch_assignments |->
                          <<[Batch |-> stock_row.Batch, Qty |-> batch_qty,
                             Umur |-> stock_row.Umur]>> \o t.batch_assignments,
                       remaining_qty |-> t.remaining_qty]
             ELSE Traverse(Tail(rows), remaining_qty)

BatchIdsReversed(batch_assignments) ==
    [i \in 1..Len(batch_assignments) |->
        batch_assignments[Len(batch_assignments) + 1 - i].Batch]

\* ", ".join(b['Batch'] for b in batch_assignments), line 960 (the join of
\* line 392 adds the quantities).
BatchIds(batch_assignments) ==
    [i \in 1..Len(batch_assignments) |-> batch_assignments[i].Batch]

assigned_qty_requested(order_qty, remaining_qty) == order_qty

\* 'Assigned Qty': order_qty - remaining_qty (lines 395 and 970)
assigned_qty(order_qty, remaining_qty) == order_qty - remaining_qty

Result(material, order_qty, batch_str, details, assigned, remaining, st) ==
    [Material      |-> material,
     OrderQuantity |-> order_qty,
     AssignedBatch |-> batch_str,
     BatchDetails  |-> details,
     AssignedQty   |-> assigned,
     RemainingQty  |-> remaining,
     Status        |-> st]

----------------------------------------------------------------------------
(* process_sales_order_simple: one iteration of its loop over the SO lines *)

simple_result(row, tracker) ==
    LET material == row.Material
        order_qty == row.OrderQuantity
        ms == material_stock(tracker, material)
        total_available == SumUnrestricted(ms)
        t == Traverse(ms, order_qty)
    IN  IF ms = << >>
        THEN Result(material, order_qty, <<"NO STOCK">>, << >>, 0, order_qty,
                    "NO STOCK")
        ELSE IF total_available = 0
        THEN Result(material, order_qty, <<"OUT OF STOCK">>, << >>, 0,
                    order_qty, "OUT OF STOCK")
        ELSE IF t.batch_assignments # << >>
        THEN Result(material, order_qty, BatchIds(t.batch_assignments),
                    t.batch_assignments,
                    assigned_qty(order_qty, t.remaining_qty),
                    t.remaining_qty,
                    IF t.remaining_qty = 0 THEN "FULLFILLED" ELSE "PARTIAL")
        ELSE Result(material, order_qty, <<"ERROR">>, << >>, 0, order_qty,
                    "ERROR")

----------------------------------------------------------------------------
(* process_sales_order: one iteration of its loop over the SO lines.       *)
(* The value is the sequence of rows the iteration appends (none or one).  *)

legacy_rows(row, stock) ==
    LET material == row.Material
        order_qty == row.OrderQuantity
        ms == material_stock(stock, material)
        total_available == SumUnrestricted(ms)
        t == Traverse(ms, order_qty)
    IN  IF ms = << >>
        THEN <<Result(material, order_qty, <<"NO STOCK">>, << >>, 0, order_qty,
                      "NO STOCK")>>
        ELSE IF total_available = 0
        THEN <<Result(material, order_qty, <<"OUT OF STOCK">>, << >>, 0,
                      order_qty, "OUT OF STOCK")>>
        ELSE IF order_qty > total_available
        THEN <<Result(material, order_qty, <<"INSUFFICIENT STOCK">>, << >>,
                      total_available, order_qty - total_available, "PARTIAL")>>
        ELSE IF t.batch_assignments # << >>
        THEN <<Result(material, order_qty, BatchIds(t.batch_assignments),
                      t.batch_assignments,
                    assigned_qty(order_qty, t.remaining_qty),
                      t.remaining_qty, "FULLFILLED")>>
        ELSE << >>

----------------------------------------------------------------------------
(* State machine *)

\* The state once main() has loaded and processed the stock sheet and a
\* Sales Order file has been uploaded.
Loaded(sheets, orders) ==
    /\ raw_df \in sheets
    /\ df = process_data(raw_df)
    /\ so_df \in orders
    /\ allocation_method = FIFO
    /\ include_critical = TRUE
    /\ stock_tracker = << >>
    /\ stock_df = << >>
    /\ idx = 0
    /\ results = << >>
    /\ pc = "idle"
    /\ runs = 0
    /\ days = 0
    /\ status = "none"

Init == Loaded(SeqsUpTo(RawRows, MaxBatches), SeqsUpTo(OrderRows, MaxLines))

\* The "Process Sales Order" button with the widget values m and inc.  The
\* press reruns main(): df is built again from the cached sheet (lines
\* 434-441; with an empty frame main() returns at line 449 and there is no
\* button), then lines 831-849, the call at line 1001 and lines 856-893 of
\* the callee.
Press(m, inc) ==
    /\ process_data(raw_df) # << >>
    /\ df' = process_data(raw_df)
    /\ allocation_method' = m
    /\ include_critical' = inc
    /\ stock_tracker' = stock_for_allocation(df', inc, m)
    /\ results' = << >>
    /\ idx' = 0
    /\ pc' = "simple"
    /\ runs' = runs + 1
    /\ UNCHANGED <<raw_df, so_df, stock_df, days, status>>

Click(m, inc) ==
    /\ pc = "idle"
    /\ Press(m, inc)

\* The button pressed again, on the page that shows the previous result.
ClickAgain(m, inc) ==
    /\ pc = "done"
    /\ runs < MaxRuns
    /\ Press(m, inc)

\* The frame with the quantities of batch_assignments taken off.
Deduct(frame, batch_assignments) ==
    [k \in 1..Len(frame) |->
        LET hits == {j \in 1..Len(batch_assignments) :
                        batch_assignments[j].Batch = frame[k].Batch}
        IN  IF hits = {} THEN frame[k]
            ELSE [frame[k] EXCEPT !.Unrestricted =
                     @ - batch_assignments[CHOOSE j \in hits : TRUE].Qty]]

\* The iteration as it would be if it wrote what it takes into the frame
\* main() holds.
ProcessLineInPlace ==
    /\ pc = "simple"
    /\ idx < Len(so_df)
    /\ LET result == simple_result(so_df[idx + 1], stock_tracker)
       IN  /\ results' = Append(results, result)
           /\ df' = Deduct(df, result.BatchDetails)
    /\ idx' = idx + 1
    /\ UNCHANGED <<raw_df, so_df, allocation_method, include_critical,
                   stock_tracker, stock_df, pc, runs, days, status>>

\* The iteration as it would be if it waited for stock instead of going on
\* to the next line.
ProcessLineWaits ==
    /\ pc = "simple"
    /\ idx < Len(so_df)
    /\ UNCHANGED vars

\* The iteration as it would be if it put its row in front of the list.
ProcessLinePrepend ==
    /\ pc = "simple"
    /\ idx < Len(so_df)
    /\ results' = <<simple_result(so_df[idx + 1], stock_tracker)>> \o results
    /\ idx' = idx + 1
    /\ UNCHANGED <<raw_df, df, so_df, allocation_method, include_critical,
                   stock_tracker, stock_df, pc, runs, days, status>>

\* One iteration of `for idx, row in so_processed.iterrows()`, lines 896-993.
\* The iteration reads stock_tracker and never writes to it.
ProcessLine ==
    /\ pc = "simple"
    /\ idx < Len(so_df)
    /\ results' = Append(results, simple_result(so_df[idx + 1], stock_tracker))
    /\ idx' = idx + 1
    /\ UNCHANGED <<raw_df, df, so_df, allocation_method, include_critical,
                   stock_tracker, stock_df, pc, runs, days, status>>

\* Lines 995-998: the loop is over, result_df is returned.
Return ==
    /\ pc = "simple"
    /\ idx = Len(so_df)
    /\ pc' = "done"
    /\ UNCHANGED <<raw_df, df, so_df, allocation_method, include_critical,
                   stock_tracker, stock_df, idx, results, runs, days, status>>

\* process_sales_order(so_df, df), lines 286-329.
CallLegacy ==
    /\ pc = "idle"
    /\ results' = << >>
    /\ idx' = 0
    /\ IF so_df = << >> \/ df = << >>
       THEN /\ pc' = "legacy_done"
            /\ stock_df' = stock_df
       ELSE /\ pc' = "legacy"
            /\ stock_df' = sort_values(df, TRUE)
    /\ UNCHANGED <<raw_df, df, so_df, allocation_method, include_critical,
                   stock_tracker, runs, days, status>>

\* One iteration of `for idx, row in so_df.iterrows()`, lines 332-399.
LegacyLine ==
    /\ pc = "legacy"
    /\ idx < Len(so_df)
    /\ results' = results \o legacy_rows(so_df[idx + 1], stock_df)
    /\ idx' = idx + 1
    /\ UNCHANGED <<raw_df, df, so_df, allocation_method, include_critical,
                   stock_tracker, stock_df, pc, runs, days, status>>

\* Lines 401-417.
LegacyReturn ==
    /\ pc = "legacy"
    /\ idx = Len(so_df)
    /\ pc' = "legacy_done"
    /\ UNCHANGED <<raw_df, df, so_df, allocation_method, include_critical,
                   stock_tracker, stock_df, idx, results, runs, days, status>>

Next ==
    \/ \E m \in Methods, inc \in BOOLEAN : Click(m, inc)
    \/ ProcessLine
    \/ Return
    \/ CallLegacy
    \/ LegacyLine
    \/ LegacyReturn

Spec == Init /\ [][Next]_vars

----------------------------------------------------------------------------
(* One run of the button, as it is offered on the page *)

SimpleNext ==
    \/ \E m \in Methods, inc \in BOOLEAN : Click(m, inc)
    \/ ProcessLine
    \/ Return

----------------------------------------------------------------------------
(* A stock sheet with cells that are not numbers *)

IngestRows ==
    {SheetRow("M1", q, e) : q \in {Num(10), Text}, e \in {Num(400), Text}}

IngestOrders == {[Material |-> "M1", OrderQuantity |-> q] : q \in {6, 15}}

IngestInit ==
    Loaded(SeqsUpTo(IngestRows, MaxBatches), SeqsUpTo(IngestOrders, MaxLines))

SpecIngest == IngestInit /\ [][SimpleNext]_vars

----------------------------------------------------------------------------
(* Sales Order lines whose material code is written differently *)

MatchRows ==
    {SheetRow("M1", Num(10), Num(400)), SheetRow("M1", Num(0), Num(400)),
     SheetRow("M2", Num(10), Num(400))}

MatchOrders ==
    {[Material |-> m, OrderQuantity |-> 6] : m \in {"M1", "m1", " M1 ", "M9"}}

MatchInit ==
    Loaded(SeqsUpTo(MatchRows, MaxBatches), SeqsUpTo(MatchOrders, MaxLines))

SpecMatch == MatchInit /\ [][SimpleNext]_vars

----------------------------------------------------------------------------
(* The button pressed more than once on the same stock sheet *)

RerunRows ==
    {SheetRow("M1", Num(10), Num(400)), SheetRow("M1", Num(10), Num(50)),
     SheetRow("M1", Num(0), Num(400))}

RerunOrders == {[Material |-> "M1", OrderQuantity |-> q] : q \in {6, 15}}

RerunInit ==
    Loaded(SeqsUpTo(RerunRows, MaxBatches), SeqsUpTo(RerunOrders, MaxLines))

RerunNext ==
    \/ \E m \in Methods, inc \in BOOLEAN : Click(m, inc)
    \/ \E m \in Methods, inc \in BOOLEAN : ClickAgain(m, inc)
    \/ ProcessLine
    \/ Return

SpecRerun == RerunInit /\ [][RerunNext]_vars

----------------------------------------------------------------------------
(* One run to its end.  The loop is straight-line code of one thread: an   *)
(* iteration that can be taken is taken, and so is the return.             *)

SpecTerminate ==
    RerunInit /\ [][SimpleNext]_vars /\ WF_vars(ProcessLine) /\ WF_vars(Return)

----------------------------------------------------------------------------
(* A stock sheet with quantities below zero *)

SignedRows ==
    {SheetRow("M1", q, Num(400)) : q \in {Num(0 - 5), Num(0), Num(10), Text}}

SignedOrders == {[Material |-> "M1", OrderQuantity |-> q] : q \in {6, 15}}

SignedInit ==
    Loaded(SeqsUpTo(SignedRows, MaxBatches), SeqsUpTo(SignedOrders, MaxLines))

SpecSigned == SignedInit /\ [][SimpleNext]_vars

----------------------------------------------------------------------------
(* Lines 843-849 with an allocation_method the selectbox does not offer *)

OtherMethod == "Random"

PolicyNext ==
    \/ \E m \in Methods \cup {OtherMethod}, inc \in BOOLEAN : Click(m, inc)
    \/ ProcessLine
    \/ Return

SpecPolicy == Init /\ [][PolicyNext]_vars

----------------------------------------------------------------------------
(* The classifier alone: get_status applied to one value *)

ClassifyInit ==
    /\ days \in (0 - MaxExpired)..MaxDays
    /\ status = "none"
    /\ raw_df = << >>
    /\ df = << >>
    /\ so_df = << >>
    /\ allocation_method = FIFO
    /\ include_critical = TRUE
    /\ stock_tracker = << >>
    /\ stock_df = << >>
    /\ idx = 0
    /\ results = << >>
    /\ pc = "classify"
    /\ runs = 0

Classify ==
    /\ pc = "classify"
    /\ status = "none"
    /\ status' = get_status(days)
    /\ UNCHANGED <<raw_df, df, so_df, allocation_method, include_critical,
                   stock_tracker, stock_df, idx, results, pc, runs, days>>

ClassifyNext == Classify

SpecClassify == ClassifyInit /\ [][ClassifyNext]_vars

----------------------------------------------------------------------------
(* What main() shows of result_df once the function has returned           *)
(* (lines 1003-1164)                                                       *)

\* len(result_df[result_df['Status'].isin(statuses)])
CountStatus(result_df, statuses) ==
    Cardinality({i \in 1..Len(result_df) : result_df[i].Status \in statuses})

\* Lines 1008-1011: the four numbers of the summary metrics.
total_lines(result_df) == Len(result_df)
fulfilled(result_df) == CountStatus(result_df, {"FULLFILLED"})
partial(result_df) == CountStatus(result_df, {"PARTIAL"})
no_stock(result_df) == CountStatus(result_df, {"NO STOCK", "OUT OF STOCK"})

\* The 'Assigned Batch' values that name no batch (lines 1043 and 1148).
Placeholders == {<<"NO STOCK">>, <<"OUT OF STOCK">>, <<"ERROR">>}

\* Lines 1039-1045; the empty string is the empty sequence of tokens.
clean_batch_string(batch_str) ==
    IF batch_str \in Placeholders THEN << >> ELSE batch_str

\* Lines 1146-1154: the tokens of every 'Assigned Batch' that is not a
\* placeholder, appended line after line.
RECURSIVE all_batches(_)
all_batches(result_df) ==
    IF result_df = << >> THEN << >>
    ELSE (IF Head(result_df).AssignedBatch \in Placeholders THEN << >>
          ELSE Head(result_df).AssignedBatch)
         \o all_batches(Tail(result_df))

----------------------------------------------------------------------------
(* Properties *)

InSimpleRun == pc \in {"simple", "done"}

Line(m, q) == [Material |-> m, OrderQuantity |-> q]

Materials(frame) == {frame[i].Material : i \in 1..Len(frame)}

RECURSIVE SumQtyOf(_, _)
SumQtyOf(batch_assignments, b) ==
    IF batch_assignments = << >> THEN 0
    ELSE (IF Head(batch_assignments).Batch = b
          THEN Head(batch_assignments).Qty ELSE 0)
         + SumQtyOf(Tail(batch_assignments), b)

RECURSIVE TakenFrom(_, _)
TakenFrom(rs, b) ==
    IF rs = << >> THEN 0
    ELSE SumQtyOf(Head(rs).BatchDetails, b) + TakenFrom(Tail(rs), b)

\* C1: in one run, two lines for the same material that each request 6
\* against a single batch of 10 end as line 1 FULLFILLED with 6 assigned and
\* line 2 PARTIAL with 4 assigned and 2 remaining.
C1_CrossLineDepletion ==
    ( /\ pc = "done"
      /\ so_df = <<Line("M1", 6), Line("M1", 6)>>
      /\ Len(material_stock(stock_tracker, "M1")) = 1
      /\ material_stock(stock_tracker, "M1")[1].Unrestricted = 10 )
    => /\ results[1].Status = "FULLFILLED"
       /\ results[1].AssignedQty = 6
       /\ results[2].Status = "PARTIAL"
       /\ results[2].AssignedQty = 4
       /\ results[2].RemainingQty = 2

\* C2: over the lines of one run, the quantities taken from a batch add up
\* to at most the batch's quantity on hand.
C2_BatchNeverOverdrawn ==
    InSimpleRun =>
        \A i \in 1..Len(df) :
            TakenFrom(results, df[i].Batch) <= df[i].Unrestricted

\* C3: every result row, whatever its status and whichever of the two
\* functions produced it, has Assigned Qty + Remaining Qty = Order Quantity.
C3_QuantityConservation ==
    \A i \in 1..Len(results) :
        results[i].AssignedQty + results[i].RemainingQty
            = results[i].OrderQuantity

C3_Witness ==
    /\ pc = "done"
    /\ \E i \in 1..Len(results) :
        /\ results[i].Status = "PARTIAL"
        /\ results[i].AssignedQty = 10
        /\ results[i].RemainingQty = 5
    /\ \E i \in 1..Len(results) : results[i].Status = "NO STOCK"

\* C4: a line takes its material's batches in ascending shelf life under
\* FIFO and in descending shelf life under LIFO (the shelf life each
\* assignment records, 'Umur (Bulan)'); with B1 (10 pcs, 100 days) and B2
\* (10 pcs, 50 days) a line of 15 is given B2:10, B1:5 under FIFO and
\* B1:10, B2:5 under LIFO.
C4_Scenario ==
    /\ Len(df) = 2
    /\ df[1].Material = "M1" /\ df[1].Unrestricted = 10 /\ df[1].Expiry = 100
    /\ df[2].Material = "M1" /\ df[2].Unrestricted = 10 /\ df[2].Expiry = 50
    /\ include_critical

CriticalOnly(i) ==
    /\ ~include_critical
    /\ so_df[i].Material \in Materials(df)
    /\ \A k \in 1..Len(df) :
        df[k].Material = so_df[i].Material => df[k].Status = "Critical"
    /\ SumUnrestricted(material_stock(df, so_df[i].Material)) > 0

C6_UnknownMaterial ==
    InSimpleRun =>
        /\ Len(results) = idx
        /\ pc = "done" => idx = Len(so_df)
        /\ \A i \in 1..Len(results) :
            so_df[i].Material \notin Materials(df) =>
                /\ results[i].Material = so_df[i].Material
                /\ results[i].Status = "NO STOCK"
                /\ results[i].AssignedQty = 0
                /\ results[i].BatchDetails = << >>

C6_Witness ==
    /\ pc = "done"
    /\ so_df = <<Line("M9", 6), Line("M1", 6)>>
    /\ results[1].Status = "NO STOCK"
    /\ results[2].Status = "FULLFILLED"

\* C8: get_status gives Critical below 360 days, Warning from 360 to 539,
\* Safe from 540 on, and nothing else; so 359 and -5 are Critical, 360 and
\* 539 are Warning, 540 is Safe.
C8_ClassifierBoundaries ==
    status # "none" =>
        /\ status \in {"Critical", "Warning", "Safe"}
        /\ status = "Critical" <=> days < 360
        /\ status = "Warning" <=> (360 <= days /\ days < 540)
        /\ status = "Safe" <=> days >= 540
        /\ days \in {359, -5} => status = "Critical"
        /\ days \in {360, 539} => status = "Warning"
        /\ days = 540 => status = "Safe"

C8_Witness == days = 360 /\ status = "Warning"

\* C9: a line whose Order Quantity is zero or negative has no row in the
\* result of the run.
C9_NonPositiveLinesExcluded ==
    InSimpleRun =>
        \A i \in 1..Len(results) : results[i].OrderQuantity > 0

\* C10: no row of the result has a negative Remaining Qty, lines with a
\* zero or negative Order Quantity included.
C10_RemainingNeverNegative ==
    InSimpleRun =>
        \A i \in 1..Len(results) : results[i].RemainingQty >= 0

\* The row of the stock frame that holds batch b, and its position.
BatchIndex(b) == CHOOSE k \in 1..Len(df) : df[k].Batch = b
BatchRow(b) == df[BatchIndex(b)]

\* C11: the order in which a line takes its batches follows the raw day
\* counts: non-decreasing days under FIFO, non-increasing days under LIFO,
\* also for batches whose months rounded to one decimal are equal (99 and
\* 100 days).
C11_OrderByRawDays ==
    InSimpleRun =>
        \A i \in 1..Len(results) :
            \A j \in 1..(Len(results[i].BatchDetails) - 1) :
                LET a == BatchRow(results[i].BatchDetails[j].Batch)
                    b == BatchRow(results[i].BatchDetails[j + 1].Batch)
                IN  IF IsFIFO(allocation_method)
                    THEN a.Expiry <= b.Expiry
                    ELSE a.Expiry >= b.Expiry

\* C12: batches of one material with equal remaining shelf life are taken
\* in the order of their rows in the stock sheet, under FIFO and under
\* LIFO: a batch is assigned only after every earlier row of the same
\* material and shelf life that has stock.
C12_TiesInInputOrder ==
    InSimpleRun =>
        \A i \in 1..Len(results) :
            LET d == results[i].BatchDetails
            IN  \A k \in 1..Len(d) :
                    \A r \in 1..Len(stock_tracker) :
                        ( /\ stock_tracker[r].Material = results[i].Material
                          /\ stock_tracker[r].Expiry = BatchRow(d[k].Batch).Expiry
                          /\ stock_tracker[r].Unrestricted > 0
                          /\ BatchIndex(stock_tracker[r].Batch)
                                < BatchIndex(d[k].Batch) )
                        => \E j \in 1..(k - 1) :
                                d[j].Batch = stock_tracker[r].Batch

C12_Witness ==
    /\ pc = "done"
    /\ allocation_method = LIFO
    /\ Len(df) = 2
    /\ df[1].Material = "M1" /\ df[2].Material = "M1"
    /\ df[1].Expiry = 50 /\ df[2].Expiry = 50
    /\ so_df = <<Line("M1", 15)>>
    /\ results[1].AssignedBatch = <<"B1", "B2">>

C14_NonNumericExpiryUnknown ==
    \A i \in 1..Len(df) :
        ~raw_df[i].Expiry.numeric =>
            /\ df[i].Status = "Unknown"
            /\ df[i].Status # "Critical"
            /\ df[i].Expiry # 0

RECURSIVE SumNumeric(_, _)
SumNumeric(sheet, m) ==
    IF sheet = << >> THEN 0
    ELSE (IF Head(sheet).Material = m /\ Head(sheet).Unrestricted.numeric
          THEN Head(sheet).Unrestricted.value ELSE 0)
         + SumNumeric(Tail(sheet), m)

\* C15: a stock row whose quantity is not a number stays in the frame, with
\* quantity 0: no line is ever assigned anything from it, and the total of
\* its material is the total of the numeric rows alone.
C15_NonNumericQuantityKept ==
    /\ Len(df) = Len(raw_df)
    /\ \A i \in 1..Len(df) :
        ~raw_df[i].Unrestricted.numeric =>
            /\ df[i].Material = raw_df[i].Material
            /\ df[i].Unrestricted = 0
            /\ TakenFrom(results, df[i].Batch) = 0
            /\ SumUnrestricted(material_stock(df, df[i].Material))
                  = SumNumeric(raw_df, df[i].Material)

C15_Witness ==
    /\ pc = "done"
    /\ Len(df) = 2
    /\ raw_df[1].Unrestricted = Text
    /\ raw_df[2].Unrestricted = Num(10)
    /\ so_df = <<Line("M1", 15)>>
    /\ results[1].AssignedBatch = <<"B2">>
    /\ results[1].AssignedQty = 10

\* The total quantity line i finds for its material in the frame handed to
\* process_sales_order_simple.
PoolTotal(i) == SumUnrestricted(material_stock(stock_tracker, so_df[i].Material))

\* No row the run may draw from for line i holds any quantity.
PoolIsZero(i) ==
    \A k \in 1..Len(stock_tracker) :
        stock_tracker[k].Material = so_df[i].Material =>
            stock_tracker[k].Unrestricted = 0

C17_FulfilledIffNothingRemains ==
    InSimpleRun =>
        \A i \in 1..Len(results) :
            PoolTotal(i) > 0 =>
                /\ results[i].RemainingQty = 0 => results[i].Status = "FULLFILLED"
                /\ results[i].RemainingQty # 0 => results[i].Status = "PARTIAL"

\* The rows of the frame whose material code is that of line i once both
\* are trimmed and upper-cased.
CanonicalRows(i) ==
    LET Same(r) == Canonical(r.Material) = Canonical(so_df[i].Material)
    IN  SelectSeq(stock_tracker, Same)

\* C18: material codes are compared after trimming and case-normalizing: a
\* line is allocated from the batches of the material whose normalized code
\* equals its own, also when the two differ in case or surrounding blanks,
\* and from no other batch.
C18_MatchAfterNormalizing ==
    InSimpleRun =>
        \A i \in 1..Len(results) :
            /\ \A j \in 1..Len(results[i].BatchDetails) :
                  Canonical(BatchRow(results[i].BatchDetails[j].Batch).Material)
                      = Canonical(so_df[i].Material)
            /\ CanonicalRows(i) = << >> => results[i].Status = "NO STOCK"
            /\ SumUnrestricted(CanonicalRows(i)) > 0 =>
                  results[i].BatchDetails # << >>

\* C18 as amended: material codes are compared as they are written: a line
\* is allocated only from batches whose material code equals its own, and
\* a line whose code differs from every code of the frame, be it only in
\* case or surrounding blanks, gets NO STOCK and is allocated nothing.
C18_MatchExactly ==
    InSimpleRun =>
        \A i \in 1..Len(results) :
            /\ \A j \in 1..Len(results[i].BatchDetails) :
                  BatchRow(results[i].BatchDetails[j].Batch).Material
                      = so_df[i].Material
            /\ so_df[i].Material \notin Materials(stock_tracker) =>
                  /\ results[i].Status = "NO STOCK"
                  /\ results[i].AssignedQty = 0
                  /\ results[i].BatchDetails = << >>
            /\ ( /\ so_df[i].Material \in Materials(stock_tracker)
                 /\ PoolTotal(i) > 0 ) =>
                  results[i].BatchDetails # << >>

C18_Witness ==
    /\ pc = "done"
    /\ so_df = <<Line("m1", 6), Line("M1", 6)>>
    /\ Len(df) = 1
    /\ df[1].Material = "M1" /\ df[1].Unrestricted = 10
    /\ results[1].Status = "NO STOCK"
    /\ results[2].Status = "FULLFILLED"

\* C19: a run leaves the quantities of the stock frame as process_data
\* built them, and every run, the second like the first, starts from a copy
\* that holds those quantities.
C19_SnapshotUntouched ==
    /\ df = process_data(raw_df)
    /\ (pc = "simple" /\ idx = 0) =>
          \A k \in 1..Len(stock_tracker) :
              stock_tracker[k] = BatchRow(stock_tracker[k].Batch)

C19_Witness ==
    /\ runs = 2
    /\ pc = "done"
    /\ Len(df) = 1
    /\ df[1].Unrestricted = 10
    /\ df[1].Status # "Critical"
    /\ so_df = <<Line("M1", 15)>>
    /\ results[1].AssignedBatch = <<"B1">>
    /\ results[1].AssignedQty = 10

\* C20: every assignment takes more than 0 and at most the quantity on hand
\* of its batch; a batch with quantity 0 stays in the frame and is never
\* assigned.
C20_AssignmentWithinBatch ==
    /\ Len(df) = Len(raw_df)
    /\ \A i \in 1..Len(results) :
          \A j \in 1..Len(results[i].BatchDetails) :
              LET a == results[i].BatchDetails[j]
              IN  /\ a.Qty > 0
                  /\ a.Qty <= BatchRow(a.Batch).Unrestricted
    /\ \A k \in 1..Len(df) :
          df[k].Unrestricted = 0 => TakenFrom(results, df[k].Batch) = 0

C20_Witness ==
    /\ pc = "done"
    /\ Len(df) = 2
    /\ df[1].Material = "M1" /\ df[1].Unrestricted = 0
    /\ df[2].Material = "M1" /\ df[2].Unrestricted = 10
    /\ df[1].Expiry = df[2].Expiry
    /\ so_df = <<Line("M1", 6)>>
    /\ results[1].AssignedBatch = <<"B2">>
    /\ results[1].BatchDetails[1].Qty = 6

\* C21: in the stock frame process_data builds, every batch has a quantity
\* of 0 or more, whatever the quantity cell of its sheet row holds, a number
\* or not.
C21_QuantityNeverNegative ==
    \A k \in 1..Len(df) : df[k].Unrestricted >= 0

\* C22: the list of all assigned batches shown after a run names each batch
\* once, also a batch that several lines were assigned.
C22_BatchListDeduplicated ==
    pc = "done" =>
        LET l == all_batches(results)
        IN  \A i, j \in 1..Len(l) : l[i] = l[j] => i = j

\* C23: in the table shown after a run, the batch text of a NO STOCK or
\* OUT OF STOCK line is empty or a placeholder and holds no batch id; the
\* batch text of every other line is the batches of its assignments, in the
\* order they were assigned.
C23_BatchTextMatchesAssignments ==
    pc = "done" =>
        \A i \in 1..Len(results) :
            LET text == clean_batch_string(results[i].AssignedBatch)
                d == results[i].BatchDetails
            IN  IF results[i].Status \in {"NO STOCK", "OUT OF STOCK"}
                THEN /\ text = << >> \/ text \in Placeholders
                     /\ \A t \in 1..Len(text), k \in 1..Len(df) :
                            text[t] # df[k].Batch
                ELSE /\ Len(text) = Len(d)
                     /\ \A j \in 1..Len(d) : text[j] = d[j].Batch

C23_Witness ==
    /\ pc = "done"
    /\ Len(results) = 2
    /\ results[1].Status = "NO STOCK"
    /\ clean_batch_string(results[1].AssignedBatch) = << >>
    /\ results[2].Status = "FULLFILLED"
    /\ Len(results[2].BatchDetails) = 2
    /\ clean_batch_string(results[2].AssignedBatch) = <<"B2", "B1">>

\* C24: the summary shown after a run gives the number of result lines and
\* the number of lines per outcome, and the numbers per outcome add up to
\* the number of lines.
C24_CountersAddUp ==
    pc = "done" =>
        /\ total_lines(results) = Len(so_df)
        /\ fulfilled(results) + partial(results) + no_stock(results)
              = total_lines(results)

C26_ErrorUnreachable ==
    \A i \in 1..Len(results) :
        results[i].Status \in {"FULLFILLED", "PARTIAL", "NO STOCK", "OUT OF STOCK"}

\* Result row r is the row of Sales Order line l.
RowOfLine(r, l) ==
    r.Material = l.Material /\ r.OrderQuantity = l.OrderQuantity

\* C27: the Sales Order lines are taken one after the other in the order of
\* the file, and the result rows are in that order: with
\* process_sales_order_simple the i-th row is the row of the i-th line
\* iterated; with process_sales_order the rows follow the order of the
\* lines and every line with a quantity above 0 has its row.
C27_ResultsInInputOrder ==
    /\ InSimpleRun =>
          /\ Len(results) = idx
          /\ \A i \in 1..idx : RowOfLine(results[i], so_df[i])
    /\ pc \in {"legacy", "legacy_done"} =>
          \E f \in [1..Len(results) -> 1..idx] :
              /\ \A i \in 1..Len(results) : RowOfLine(results[i], so_df[f[i]])
              /\ \A i, j \in 1..Len(results) : i < j => f[i] < f[j]
              /\ \A k \in 1..idx :
                    so_df[k].OrderQuantity > 0 =>
                        \E i \in 1..Len(results) : f[i] = k

C27_Witness ==
    /\ pc = "done"
    /\ so_df = <<Line("M1", 6), Line("M9", 6)>>
    /\ Len(df) = 1
    /\ df[1].Unrestricted = 10
    /\ results[1].Material = "M1"
    /\ results[1].Status = "FULLFILLED"
    /\ results[2].Material = "M9"
    /\ results[2].Status = "NO STOCK"

\* C28: a line with a quantity above 0 whose material has rows in the frame
\* the run draws from, with a total other than 0, is assigned the smaller
\* of its quantity and that total.
C28_AssignedIsMinOfNeedAndPool ==
    InSimpleRun =>
        \A i \in 1..Len(results) :
            ( /\ so_df[i].OrderQuantity > 0
              /\ so_df[i].Material \in Materials(stock_tracker)
              /\ PoolTotal(i) # 0 )
            => results[i].AssignedQty = Min(so_df[i].OrderQuantity, PoolTotal(i))

\* C29: in the assignments of one line, every assignment but the last takes
\* the whole quantity of its batch; only the last batch of the line may be
\* taken in part.
C29_OnlyLastBatchPartial ==
    \A i \in 1..Len(results) :
        LET d == results[i].BatchDetails
        IN  \A j \in 1..(Len(d) - 1) :
                d[j].Qty = BatchRow(d[j].Batch).Unrestricted

C29_Witness ==
    /\ pc = "done"
    /\ Len(df) = 2
    /\ df[1].Material = "M1" /\ df[1].Unrestricted = 10 /\ df[1].Expiry = 400
    /\ df[2].Material = "M1" /\ df[2].Unrestricted = 10 /\ df[2].Expiry = 400
    /\ so_df = <<Line("M1", 15)>>
    /\ Len(results[1].BatchDetails) = 2
    /\ results[1].BatchDetails[1].Batch = "B1"
    /\ results[1].BatchDetails[1].Qty = 10
    /\ results[1].BatchDetails[2].Batch = "B2"
    /\ results[1].BatchDetails[2].Qty = 5

\* C30: a run that has started ends, with every Sales Order line iterated
\* and a row for each; and no line is assigned the same batch twice or more
\* batches than its material has rows.
C30_RunTerminates ==
    /\ (pc = "simple") ~>
          (pc = "done" /\ idx = Len(so_df) /\ Len(results) = Len(so_df))
    /\ [](\A i \in 1..Len(results) :
            LET d == results[i].BatchDetails
            IN  /\ \A j, k \in 1..Len(d) : d[j].Batch = d[k].Batch => j = k
                /\ Len(d) <= Len(material_stock(stock_tracker,
                                                results[i].Material)))

C30_Witness ==
    /\ pc = "done"
    /\ so_df = <<Line("M1", 15), Line("M1", 15)>>
    /\ idx = 2
    /\ Len(df) = 2
    /\ Len(results) = 2
    /\ Len(results[1].BatchDetails) = 2
    /\ Len(results[2].BatchDetails) = 2

====
